---- MODULE Spec2Model ----
(***************************************************************************)
(* The Synapse backend (src/backend/main.py) as a state machine: the HTTP  *)
(* handlers upload_document, sync_slack, sync_github, cancel_sync and      *)
(* query_knowledge over the one shared Chroma collection of                *)
(* vector_store_client.py.  A request is a slot of req; a handler is cut   *)
(* into steps at the calls that touch the outside (file system, source     *)
(* reader, embedding provider, collection, completion provider).           *)
(***************************************************************************)
EXTENDS Integers, FiniteSets, Sequences, TLC

\* ---------------------------------------------------------------- bounds
MaxDocs == 3      \* documents the readers return in one behaviour, in all
MaxFaults == 1    \* calls that raise in one behaviour, in all
MaxText == 4      \* tokens of a text handed to the chunker, at most
MaxWindow == 3    \* the largest maxTokens the chunker is configured with
MaxBatch == 3     \* texts of one batch handed to the embedding wrapper, at most
MaxIds == 3       \* record ids the callers of the store client draw from
MaxClears == 2    \* calls of clear_collection in one run, at most

\* Two requests, served side by side: a writer and a reader, two writers,
\* a sync job and the request that cancels it.
Reqs == {1, 2}

\* ------------------------------------------------------------ value sets
None == "None"                       \* Python's None / an absent field
Contexts == {"A", "B"}
CtxInputs == Contexts \cup {"", None} \* what a client can put in contextId
Kinds == {"upload", "slack", "github", "query", "cancel", "transform"}
Outcomes == {"ok", "transient", "fatal", "store"}
ErrorWords == {"api", "vector", "embedding", "other"}  \* words of an exception's message
NoCount == -1                        \* the response carries no count

\* main.py:488: as_query_engine is given the filters and no similarity_top_k,
\* so the retriever of the index library works with its own default, 2.
TopK == 2

\* vector_store_client.py:111: the default n_results of search_documents.
n_results == 5

VARIABLES
    collection,   \* vector_store.collection: the set of stored records
    req,          \* req[r]: the state of request r and of its handler
    loop,         \* the request whose handler runs on the event loop; 0: idle
    sharedLoop,   \* TRUE: every handler runs on the one uvicorn event loop
    cancelled,    \* history: sync jobs that were running when a cancel was answered
    docsLeft,     \* documents the readers may still return
    faultsLeft,   \* calls that may still raise
    chunker,      \* the chunker: its configuration, its text and its chunks
    embedder,     \* one batch call of CustomOpenAIEmbedding
    store         \* a VectorStoreClient driven through its own methods

vars == <<collection, req, loop, sharedLoop, cancelled, docsLeft, faultsLeft,
          chunker, embedder, store>>
env == <<docsLeft, faultsLeft>>
fixed == <<sharedLoop, chunker, embedder, store>>
server == <<collection, req, loop, sharedLoop, cancelled, docsLeft, faultsLeft>>

\* --------------------------------------------------------- request state
Idle == [kind |-> "none", pc |-> "idle", contextId |-> None, n |-> 0, i |-> 0,
         status |-> 0, body |-> "none", count |-> NoCount, err |-> "none",
         cls |-> "none", invalid |-> FALSE,
         embeds |-> 0, llm |-> 0, fetches |-> 0, reads |-> 0, writes |-> 0,
         filters |-> {}, where |-> {},
         retrieved |-> {}, sources |-> {}, answer |-> "none",
         temp |-> FALSE, during |-> {}]

\* vector_store_client.py:39-45: the collection is opened on a persistent
\* store, which holds what earlier runs of the server (request 0) ingested.
StoredBefore ==
    {[req |-> 0, doc |-> 1, contextId |-> c, source |-> "file_upload"] : c \in Contexts}

\* The chunker at rest: the handlers leave chunking to the index library.
ChunkerOff == [pc |-> "off", text |-> <<>>, maxTokens |-> 1, overlapTokens |-> 0,
               chunks |-> <<>>, sent |-> 0]

\* No batch call under way.
EmbedderOff == [pc |-> "off", texts |-> <<>>, data |-> <<>>, vectors |-> <<>>]

\* No client driven on its own.
StoreOff == [self_collection |-> 0, chroma_collection |-> 0, records |-> {},
             op |-> "none", ids |-> {}, context_id |-> None, results |-> {},
             count |-> NoCount, removed |-> {}, raised |-> FALSE]

Init ==
    /\ chunker = ChunkerOff
    /\ embedder = EmbedderOff
    /\ store = StoreOff
    /\ collection \in SUBSET StoredBefore
    /\ req = [r \in Reqs |-> Idle]
    /\ loop = 0
    /\ sharedLoop = TRUE
    /\ cancelled = {}
    /\ docsLeft = MaxDocs
    /\ faultsLeft = MaxFaults

\* Handlers of separate server processes over the same PersistentClient path:
\* no event loop orders their steps.
InitMP ==
    /\ chunker = ChunkerOff
    /\ embedder = EmbedderOff
    /\ store = StoreOff
    /\ collection \in SUBSET StoredBefore
    /\ req = [r \in Reqs |-> Idle]
    /\ loop = 0
    /\ sharedLoop = FALSE
    /\ cancelled = {}
    /\ docsLeft = MaxDocs
    /\ faultsLeft = MaxFaults

\* An `async def` handler runs on the event loop until it awaits or returns.
CanRun(r) == ~sharedLoop \/ loop \in {0, r}

\* The handler keeps the loop.
Hold(r) == IF sharedLoop THEN r ELSE 0

\* The records request r has added to the collection.
WrittenBy(r) == {x \in collection : x.req = r}

\* The response of a finished request.
Respond(q, status, body, count) ==
    [q EXCEPT !.pc = "done", !.status = status, !.body = body, !.count = count]

\* ------------------------------------------------- request validation
\* A form field sent empty reaches a Form(...) parameter as an absent one.
FormField(c) == IF c = "" THEN None ELSE c

\* main.py:134: contextId: str = Form(...)
UploadFormValid(c) == FormField(c) # None

\* main.py:247: contextId: str = Form(None)
SlackFormValid(c) == TRUE

\* main.py:110-114: contextId: str = Field(..., min_length=1)
GitHubRepoRequestValid(c) == c # None /\ c # ""

\* main.py:96-98: contextId: str
QueryRequestValid(c) == c # None

\* main.py:121-123: contextId: str
TransformRequestValid(c) == c # None

RequestValid(k, c) ==
    CASE k = "upload"    -> UploadFormValid(c)
      [] k = "slack"     -> SlackFormValid(c)
      [] k = "github"    -> GitHubRepoRequestValid(c)
      [] k = "query"     -> QueryRequestValid(c)
      [] k = "transform" -> TransformRequestValid(c)
      [] OTHER           -> TRUE

\* The value the handler's contextId parameter is bound to.
BoundContext(k, c) == IF k \in {"upload", "slack"} THEN FormField(c) ELSE c

Bound(r) == BoundContext(req[r].kind, req[r].contextId)

\* main.py:46-69: a request that fails validation is answered 422 and its
\* handler never runs; any other request is handed to its handler.
Receive(r) ==
    /\ req[r].pc = "idle"
    /\ \A p \in Reqs : p < r => req[p].pc # "idle"
    /\ \E k \in Kinds, c \in CtxInputs :
          /\ k = "cancel" => c = None
          /\ req' = [req EXCEPT ![r] =
                IF RequestValid(k, c)
                THEN [@ EXCEPT !.kind = k, !.contextId = c, !.pc = "start"]
                ELSE Respond([@ EXCEPT !.kind = k, !.contextId = c],
                             422, "validation", NoCount)]
    /\ UNCHANGED <<collection, loop, fixed, cancelled, env>>

\* ------------------------------------------------------------ ingestion
\* A record stored under a key made of its content and its context alone.
TagByContent(r, d, src) == [req |-> 0, doc |-> d, contextId |-> Bound(r), source |-> src]

\* main.py:169-174, 323-328, 417-424: every loaded document gets the source
\* tag and the handler's contextId in its metadata, and the index stores the
\* document under that metadata.
Tag(r, d, src) == [req |-> r, doc |-> d, contextId |-> Bound(r), source |-> src]

\* An add that writes the collection back from the caller's records alone.
AddOverwrites(recs) == recs

\* vector_store_client.py:96-102, reached from index.insert and from_documents
\* through ChromaVectorStore: collection.add puts the records, each under a
\* fresh node id, next to the ones the collection holds.
Add(recs) == collection \cup recs

\* History of the queries in flight: the contexts written while each runs.
Noted(rq, ctx) ==
    [q \in Reqs |->
        IF rq[q].kind = "query" /\ rq[q].pc \in {"query", "synth", "respond"}
        THEN [rq[q] EXCEPT !.during = @ \cup {ctx}]
        ELSE rq[q]]

\* The loop is given up when the handler returns or raises.
Release(r) == loop' = IF req'[r].pc = "done" THEN 0 ELSE Hold(r)

\* A call that raises uses up one of the faults of the behaviour.
Fault(raises) ==
    /\ raises => faultsLeft > 0
    /\ faultsLeft' = IF raises THEN faultsLeft - 1 ELSE faultsLeft

\* main.py:210-240: the handler of any other exception removes the temporary
\* file and picks the status from the words of the exception's message.
UploadError(q, msg) ==
    Respond([q EXCEPT !.temp = FALSE],
            IF msg = "other" THEN 500 ELSE 503,
            IF msg = "other" THEN "error_text" ELSE "generic",
            NoCount)

\* main.py:141-158: the file name is checked, then the upload is copied to
\* TEMP_UPLOADS_DIR and to DATA_DIR.
upload_document_save(r) ==
    /\ req[r].kind = "upload" /\ req[r].pc = "start" /\ CanRun(r)
    /\ \E named \in BOOLEAN :
          req' = [req EXCEPT ![r] =
                    IF named THEN [@ EXCEPT !.pc = "load", !.temp = TRUE]
                    ELSE Respond(@, 400, "validation", NoCount)]
    /\ Release(r)
    /\ UNCHANGED <<collection, fixed, cancelled, env>>

\* main.py:160-174: SimpleDirectoryReader loads the documents; no document is
\* an HTTPException(400), which is re-raised as it is (main.py:191-193).
upload_document_load(r) ==
    /\ req[r].kind = "upload" /\ req[r].pc = "load" /\ CanRun(r)
    /\ \E n \in 0..docsLeft, raised \in BOOLEAN, msg \in ErrorWords :
          /\ raised => n = 0
          /\ ~raised => msg = "other"
          /\ Fault(raised)
          /\ docsLeft' = docsLeft - n
          /\ req' = [req EXCEPT ![r] =
                IF raised THEN UploadError([@ EXCEPT !.err = "load", !.fetches = @ + 1], msg)
                ELSE IF n = 0
                THEN Respond([@ EXCEPT !.fetches = @ + 1], 400, "validation", NoCount)
                ELSE [@ EXCEPT !.pc = "index", !.n = n, !.fetches = @ + 1]]
    /\ Release(r)
    /\ UNCHANGED <<collection, fixed, cancelled>>

\* main.py:176-189: VectorStoreIndex.from_documents splits every document,
\* embeds the nodes in one batch and adds them to the collection; then the
\* temporary file is removed and the upload is answered.
upload_document_index(r) ==
    /\ req[r].kind = "upload" /\ req[r].pc = "index" /\ CanRun(r)
    /\ \E out \in Outcomes, msg \in ErrorWords :
          /\ Fault(out # "ok")
          /\ IF out = "ok"
             THEN /\ msg = "other"
                  /\ collection' = Add({Tag(r, d, "file_upload") : d \in 1..req[r].n})
                  /\ req' = Noted([req EXCEPT ![r] =
                               Respond([@ EXCEPT !.i = req[r].n, !.embeds = @ + 1,
                                                 !.writes = @ + 1, !.temp = FALSE],
                                       200, "ok", NoCount)], Bound(r))
             ELSE /\ collection' = collection
                  /\ req' = [req EXCEPT ![r] =
                               UploadError([@ EXCEPT !.err = out, !.embeds = @ + 1], msg)]
    /\ Release(r)
    /\ UNCHANGED <<fixed, cancelled, docsLeft>>

\* main.py:300-331 and 414-426: the reader call made in the worker thread.
\* It returns n documents, or raises.
Fetched(q, n, raised) ==
    IF raised THEN [q EXCEPT !.pc = "fetched", !.err = "fetch", !.fetches = @ + 1]
    ELSE [q EXCEPT !.pc = "fetched", !.n = n, !.fetches = @ + 1]

Fetch(r) ==
    /\ req[r].pc = "fetch"
    /\ \E n \in 0..docsLeft, raised \in BOOLEAN :
          /\ raised => n = 0
          /\ Fault(raised)
          /\ docsLeft' = docsLeft - n
          /\ req' = [req EXCEPT ![r] = Fetched(@, n, raised)]
    /\ UNCHANGED <<collection, loop, fixed, cancelled>>

\* An insert loop that swallows the exception and goes on to the next document.
InsertFailedSkips(q, out) ==
    IF q.i + 1 = q.n
    THEN Respond([q EXCEPT !.i = @ + 1, !.err = out, !.embeds = @ + 1], 200, "ok", q.n)
    ELSE [q EXCEPT !.i = @ + 1, !.err = out, !.embeds = @ + 1]

\* An insert loop that waits to try the failed document again and is never
\* woken up.
InsertFailedBacksOff(q, out) == [q EXCEPT !.err = out, !.embeds = @ + 1, !.pc = "backoff"]

\* main.py:365-366 and 438-439 with 381-383 and 443-445: an insert that
\* raises ends the loop and the handler: the exception becomes a 500.
InsertFailed(q, out) ==
    Respond([q EXCEPT !.err = out, !.embeds = @ + 1], 500, "error_text", NoCount)

\* An answer that counts one document more than the reader returned.
InsertDoneOneMore(q) == Respond(q, 200, "ok", q.n + 1)

\* main.py:368-376 and 441: the answer after the last insert.
InsertDone(q) == Respond(q, 200, "ok", q.n)

\* main.py:365-366 and 438-439: index.insert(doc) of the next document:
\* one embedding call for the document's nodes, then one add to the collection.
Insert(r, src) ==
    /\ req[r].pc = "insert" /\ CanRun(r)
    /\ \E out \in Outcomes :
          LET q == req[r]
              d == q.i + 1
              w == [q EXCEPT !.i = d, !.embeds = @ + 1, !.writes = @ + 1]
          IN  /\ Fault(out # "ok")
              /\ IF out = "ok"
                 THEN /\ collection' = Add({Tag(r, d, src)})
                      /\ req' = Noted([req EXCEPT ![r] =
                                   IF d = q.n THEN InsertDone(w) ELSE w], Bound(r))
                 ELSE /\ collection' = collection
                      /\ req' = [req EXCEPT ![r] = InsertFailed(q, out)]
    /\ Release(r)
    /\ UNCHANGED <<fixed, cancelled, docsLeft>>

\* main.py:251-284 and 338: the channel ids and the token are checked (422),
\* then the handler awaits the worker thread.
sync_slack(r) ==
    /\ req[r].kind = "slack" /\ req[r].pc = "start" /\ CanRun(r)
    /\ \E channels \in BOOLEAN, token \in BOOLEAN :
          /\ ~channels => token
          /\ req' = [req EXCEPT ![r] =
                IF channels /\ token THEN [@ EXCEPT !.pc = "fetch"]
                ELSE Respond([@ EXCEPT !.invalid = TRUE], 422, "validation", NoCount)]
    /\ loop' = 0
    /\ UNCHANGED <<collection, fixed, cancelled, env>>

\* main.py:287-335: the worker thread of sync_slack.
sync_slack_channels(r) ==
    /\ req[r].kind = "slack"
    /\ Fetch(r)

\* main.py:338-362 and 381-383: back on the loop: an exception of the thread
\* is a 500, no document is the "warning" answer, else the inserts start.
sync_slack_resume(r) ==
    /\ req[r].kind = "slack" /\ req[r].pc = "fetched" /\ CanRun(r)
    /\ req' = [req EXCEPT ![r] =
            IF @.err = "fetch" THEN Respond(@, 500, "error_text", NoCount)
            ELSE IF @.n = 0 THEN Respond(@, 200, "warning", 0)
            ELSE [@ EXCEPT !.pc = "insert"]]
    /\ Release(r)
    /\ UNCHANGED <<collection, fixed, cancelled, env>>

sync_slack_insert(r) == req[r].kind = "slack" /\ Insert(r, "slack")

\* main.py:388-396, 429 and 443-445: without a token the HTTPException(400)
\* is caught by `except Exception` and answered as a 500.
sync_github(r) ==
    /\ req[r].kind = "github" /\ req[r].pc = "start" /\ CanRun(r)
    /\ \E token \in BOOLEAN :
          req' = [req EXCEPT ![r] =
                IF token THEN [@ EXCEPT !.pc = "fetch"]
                ELSE Respond([@ EXCEPT !.invalid = TRUE], 500, "error_text", NoCount)]
    /\ loop' = 0
    /\ UNCHANGED <<collection, fixed, cancelled, env>>

\* main.py:399-426: the worker thread of sync_github.
sync_github_repo(r) ==
    /\ req[r].kind = "github"
    /\ Fetch(r)

\* main.py:429-441 and 443-445: back on the loop; with no document the loop
\* body never runs and the success message is returned.
sync_github_resume(r) ==
    /\ req[r].kind = "github" /\ req[r].pc = "fetched" /\ CanRun(r)
    /\ req' = [req EXCEPT ![r] =
            IF @.err = "fetch" THEN Respond(@, 500, "error_text", NoCount)
            ELSE IF @.n = 0 THEN InsertDone(@)
            ELSE [@ EXCEPT !.pc = "insert"]]
    /\ Release(r)
    /\ UNCHANGED <<collection, fixed, cancelled, env>>

sync_github_insert(r) == req[r].kind = "github" /\ Insert(r, "github")

\* main.py:447-458: the handler logs and answers success; it holds no
\* reference to any running job.
Running(q) == q.kind \in {"slack", "github"} /\ q.pc \in {"fetch", "fetched", "insert"}

cancel_sync(r) ==
    /\ req[r].kind = "cancel" /\ req[r].pc = "start" /\ CanRun(r)
    /\ req' = [req EXCEPT ![r] = Respond(@, 200, "ok", NoCount)]
    /\ cancelled' = cancelled \cup {j \in Reqs : Running(req[j])}
    /\ loop' = 0
    /\ UNCHANGED <<collection, fixed, env>>

\* ---------------------------------------------------------------- query
\* The query engine built with no filter.
NoMetadataFilters(c) == {}

\* main.py:480-485: MetadataFilters with the one filter contextId = request.contextId.
MetadataFilters(c) == {<<"contextId", c>>}

\* A search that drops its filter.
SearchUnfiltered(where) == collection

\* main.py:488-491 over the collection of vector_store_client.py:126-130:
\* the records that match every filter exactly.
Search(where) == {x \in collection : \A f \in where : x[f[1]] = f[2]}

\* main.py:488-491: the retriever's answer, the best TopK of the matching
\* records.  Which ones are best is the embedding provider's doing, so any
\* TopK of them.
Retrievals(where) ==
    LET m == Search(where)
        k == IF Cardinality(m) < TopK THEN Cardinality(m) ELSE TopK
    IN  {s \in SUBSET m : Cardinality(s) = k}

\* Sources read off the collection instead of the response.
SourcesOfCollection(q) == collection

\* main.py:493-506: one source entry per node of response.source_nodes, with
\* the node's id, content and metadata.
SourcesOf(q) == q.retrieved

\* An exception of the query answered like a query that found nothing.
QueryErrorAsEmpty(q, out, msg) == Respond(q, 200, "ok", NoCount)

\* main.py:517: the provider's exception classes. RateLimitError and
\* APIConnectionError are subclasses of APIError.
APIErrors == {"APIError", "RateLimitError", "APIConnectionError"}
Bases(cls) ==
    IF cls \in {"RateLimitError", "APIConnectionError"} THEN {cls, "APIError"}
    ELSE {cls}
isinstance(cls, base) == base \in Bases(cls)

\* The classes of the exception behind an outcome: a transient failure is a
\* rate limit or a lost connection, a fatal one another API error, and what
\* the store raises is no provider error.
ExceptionsOf(out) ==
    IF out = "transient" THEN {"RateLimitError", "APIConnectionError"}
    ELSE IF out = "fatal" THEN {"APIError"}
    ELSE {"none"}

\* main.py:516-553: the answer to an exception raised by the query; the
\* branches are tried in the order of the code.
QueryError(q, out, msg) ==
    IF isinstance(q.cls, "APIError") THEN Respond(q, 503, "error_text", NoCount)
    ELSE IF isinstance(q.cls, "RateLimitError") THEN Respond(q, 429, "rate_limit", NoCount)
    ELSE IF isinstance(q.cls, "APIConnectionError") THEN Respond(q, 503, "generic", NoCount)
    ELSE IF msg = "vector" THEN Respond(q, 503, "generic", NoCount)
    ELSE Respond(q, 500, "generic", NoCount)

\* main.py:463-488: the embedding model and the LLM are set, the index is
\* opened on the collection and the query engine gets the contextId filter.
query_knowledge(r) ==
    /\ req[r].kind = "query" /\ req[r].pc = "start" /\ CanRun(r)
    /\ req' = [req EXCEPT ![r] =
            [@ EXCEPT !.pc = "query", !.filters = MetadataFilters(req[r].contextId)]]
    /\ Release(r)
    /\ UNCHANGED <<collection, fixed, cancelled, env>>

\* main.py:491, first half: the question is embedded
\* (custom_openai_embedding.py:21-27) and the collection is searched.
query_engine_retrieve(r) ==
    /\ req[r].kind = "query" /\ req[r].pc = "query" /\ CanRun(r)
    /\ \E out \in Outcomes, msg \in {"vector", "other"} :
          /\ out \in {"ok", "transient", "fatal"} => msg = "other"
          /\ Fault(out # "ok")
          /\ \E s \in IF out = "ok" THEN Retrievals(req[r].filters) ELSE {{}},
                cls \in ExceptionsOf(out) :
                req' = [req EXCEPT ![r] =
                    IF out \in {"transient", "fatal"}
                    THEN QueryError([@ EXCEPT !.err = out, !.cls = cls,
                                              !.embeds = @ + 1], out, msg)
                    ELSE IF out = "store"
                    THEN QueryError([@ EXCEPT !.err = out, !.embeds = @ + 1,
                                              !.where = req[r].filters], out, msg)
                    ELSE [@ EXCEPT !.pc = "synth", !.embeds = @ + 1, !.reads = @ + 1,
                                   !.where = req[r].filters, !.retrieved = s]]
    /\ Release(r)
    /\ UNCHANGED <<collection, fixed, cancelled, docsLeft>>

\* main.py:491, second half: the response synthesizer of the query engine.
\* With nodes it calls the completion provider; what it does with no node is
\* the library's choice, not this repository's: either is allowed here.
query_engine_synthesize(r) ==
    /\ req[r].kind = "query" /\ req[r].pc = "synth" /\ CanRun(r)
    /\ \E call \in BOOLEAN, out \in {"ok", "transient", "fatal"} :
          /\ ~call => req[r].retrieved = {} /\ out = "ok"
          /\ Fault(out # "ok")
          /\ \E cls \in ExceptionsOf(out) :
                req' = [req EXCEPT ![r] =
                    IF ~call THEN [@ EXCEPT !.pc = "respond", !.answer = "empty"]
                    ELSE IF out = "ok"
                    THEN [@ EXCEPT !.pc = "respond", !.llm = @ + 1, !.answer = "llm"]
                    ELSE QueryError([@ EXCEPT !.err = out, !.cls = cls,
                                              !.llm = @ + 1], out, "other")]
    /\ Release(r)
    /\ UNCHANGED <<collection, fixed, cancelled, docsLeft>>

\* main.py:493-508: the answer and the sources are returned.
query_knowledge_respond(r) ==
    /\ req[r].kind = "query" /\ req[r].pc = "respond" /\ CanRun(r)
    /\ req' = [req EXCEPT ![r] =
            Respond([@ EXCEPT !.sources = SourcesOf(req[r])], 200, "ok", NoCount)]
    /\ Release(r)
    /\ UNCHANGED <<collection, fixed, cancelled, env>>

\* ------------------------------------------------------------ transform
\* A rewrite that empties the collection on its way.
transform_query_clearing(r) ==
    /\ req[r].kind = "transform" /\ req[r].pc = "start" /\ CanRun(r)
    /\ req' = [req EXCEPT ![r] =
            Respond([@ EXCEPT !.llm = @ + 1, !.answer = "transformed"], 200, "ok", NoCount)]
    /\ collection' = {}
    /\ loop' = 0
    /\ UNCHANGED <<fixed, cancelled, env>>

\* main.py:556-589: one chat completion on the question; its text is the
\* answer, and any exception is a 500 that carries the exception's text.
transform_query(r) ==
    /\ req[r].kind = "transform" /\ req[r].pc = "start" /\ CanRun(r)
    /\ \E out \in {"ok", "transient", "fatal"} :
          /\ Fault(out # "ok")
          /\ req' = [req EXCEPT ![r] =
                IF out = "ok"
                THEN Respond([@ EXCEPT !.llm = @ + 1, !.answer = "transformed"],
                             200, "ok", NoCount)
                ELSE Respond([@ EXCEPT !.llm = @ + 1, !.err = out],
                             500, "error_text", NoCount)]
    /\ loop' = 0
    /\ UNCHANGED <<collection, fixed, cancelled, docsLeft>>

\* -------------------------------------------------------------- chunker
\* The chunker of the ingestion pipeline, split(text, maxTokens,
\* overlapTokens): the handlers of main.py hand chunking to the index library
\* (main.py:176-181), so the windows are those of the specification, 4.1.
Tokens == {"a", "b"}
Texts == UNION {[1..n -> Tokens] : n \in 0..MaxText}

Min(a, b) == IF a < b THEN a ELSE b

\* The windows of text from token `start` on: each holds maxTokens tokens,
\* the last one what is left, and the next starts maxTokens - overlapTokens
\* tokens further.
RECURSIVE Windows(_, _, _, _)
Windows(text, maxTokens, overlapTokens, start) ==
    LET last == Min(start + maxTokens - 1, Len(text))
    IN  IF last = Len(text)
        THEN <<SubSeq(text, start, last)>>
        ELSE <<SubSeq(text, start, last)>>
             \o Windows(text, maxTokens, overlapTokens, start + maxTokens - overlapTokens)

\* A split whose windows follow one another with no overlap.
splitNoOverlap(text, maxTokens, overlapTokens) ==
    IF text = <<>> THEN <<>> ELSE Windows(text, maxTokens, 0, 1)

\* A split whose windows end one token late.
splitOneTooMany(text, maxTokens, overlapTokens) ==
    IF text = <<>> THEN <<>> ELSE Windows(text, maxTokens + 1, overlapTokens, 1)

\* The empty text has no chunk.
split(text, maxTokens, overlapTokens) ==
    IF text = <<>> THEN <<>> ELSE Windows(text, maxTokens, overlapTokens, 1)

\* A chunker is set up with any configuration and handed any text.
InitChunker ==
    /\ chunker \in [pc : {"new"}, text : Texts, maxTokens : 1..MaxWindow,
                    overlapTokens : 0..MaxWindow, chunks : {<<>>}, sent : {0}]
    /\ embedder = EmbedderOff
    /\ store = StoreOff
    /\ collection = {}
    /\ req = [r \in Reqs |-> Idle]
    /\ loop = 0
    /\ sharedLoop = TRUE
    /\ cancelled = {}
    /\ docsLeft = 0
    /\ faultsLeft = 0

\* overlapTokens >= maxTokens is a configuration error, rejected at startup.
chunker_configure ==
    /\ chunker.pc = "new"
    /\ chunker' = [chunker EXCEPT !.pc =
            IF chunker.overlapTokens >= chunker.maxTokens THEN "rejected" ELSE "ready"]
    /\ UNCHANGED <<server, embedder, store>>

\* The pipeline chunks the text of the document.
chunker_split ==
    /\ chunker.pc = "ready"
    /\ chunker' = [chunker EXCEPT
            !.pc = "embedding",
            !.chunks = split(chunker.text, chunker.maxTokens, chunker.overlapTokens)]
    /\ UNCHANGED <<server, embedder, store>>

\* The pipeline passes the next chunk to the embedding call.
chunker_embed ==
    /\ chunker.pc = "embedding" /\ chunker.sent < Len(chunker.chunks)
    /\ chunker' = [chunker EXCEPT !.sent = @ + 1]
    /\ UNCHANGED <<server, embedder, store>>

NextChunker == chunker_configure \/ chunker_split \/ chunker_embed

\* ------------------------------------------------------------- embedder
\* custom_openai_embedding.py:37-43, _get_text_embeddings: one
\* embeddings.create call on the list of texts, then the embeddings of the
\* response's data items, in the order the response holds them.
EmbedTexts == {"x", "y"}
Batches == UNION {[1..n -> EmbedTexts] : n \in 1..MaxBatch}

\* The vector the provider computes for a text.
Embedding(t) == <<"vector", t>>

\* The provider's answers to a batch: one data item per input text, holding
\* the position of the text in the input and its embedding; the items come
\* in any order.
Responses(texts) ==
    {d \in [1..Len(texts) -> [index : 0..(Len(texts) - 1), embedding : {Embedding(t) : t \in EmbedTexts}]] :
        /\ \A i \in 1..Len(texts) : \E k \in 1..Len(texts) : d[k].index = i - 1
        /\ \A k \in 1..Len(texts) : d[k].embedding = Embedding(texts[d[k].index + 1])}

\* custom_openai_embedding.py:43: [data.embedding for data in response.data]
EmbeddingsOf(data) == [k \in 1..Len(data) |-> data[k].embedding]

InitEmbedder ==
    /\ embedder \in [pc : {"call"}, texts : Batches, data : {<<>>}, vectors : {<<>>}]
    /\ chunker = ChunkerOff
    /\ store = StoreOff
    /\ collection = {}
    /\ req = [r \in Reqs |-> Idle]
    /\ loop = 0
    /\ sharedLoop = TRUE
    /\ cancelled = {}
    /\ docsLeft = 0
    /\ faultsLeft = 0

\* custom_openai_embedding.py:39-42: the provider answers the batch.
embeddings_create ==
    /\ embedder.pc = "call"
    /\ \E d \in Responses(embedder.texts) :
          embedder' = [embedder EXCEPT !.pc = "response", !.data = d]
    /\ UNCHANGED <<server, chunker, store>>

\* custom_openai_embedding.py:43: the wrapper returns the vectors.
get_text_embeddings ==
    /\ embedder.pc = "response"
    /\ embedder' = [embedder EXCEPT !.pc = "returned", !.vectors = EmbeddingsOf(embedder.data)]
    /\ UNCHANGED <<server, chunker, store>>

NextEmbedder == embeddings_create \/ get_text_embeddings

\* --------------------------------------------------------- store client
\* vector_store_client.py: the client holds the Chroma collection object in
\* self.collection and, inside self.vector_store (and so inside
\* self.storage_context), the collection object the adapter was built on.
\* Collection objects are numbered in the order they are created; records
\* are what the database holds under the name "synapse_knowledge_base".
DocIds == 1..MaxIds
StoreRecord(id, c) == [id |-> id, contextId |-> c]
IdsOf(records) == {x.id : x \in records}

\* A call of the client starts from the last call's bookkeeping wiped.
Called(op) == [store EXCEPT !.op = op, !.ids = {}, !.context_id = None, !.results = {},
                            !.count = NoCount, !.removed = {}, !.raised = FALSE]

\* vector_store_client.py:28-52: a new client on an empty database; the
\* adapter is built on the collection the client has just opened (line 57).
InitClient ==
    /\ store = [StoreOff EXCEPT !.self_collection = 1, !.chroma_collection = 1,
                                !.op = "init"]
    /\ chunker = ChunkerOff
    /\ embedder = EmbedderOff
    /\ collection = {}
    /\ req = [r \in Reqs |-> Idle]
    /\ loop = 0
    /\ sharedLoop = TRUE
    /\ cancelled = {}
    /\ docsLeft = 0
    /\ faultsLeft = 0

\* vector_store_client.py:80-106: records with new ids, tagged with a
\* context, are added through self.collection.
add_documents ==
    /\ store.op # "none"
    /\ \E ids \in SUBSET DocIds \ {{}}, c \in Contexts :
          /\ ids \cap IdsOf(store.records) = {}
          /\ store' = [Called("add_documents") EXCEPT
                          !.ids = ids,
                          !.records = @ \cup {StoreRecord(id, c) : id \in ids}]
    /\ UNCHANGED <<server, chunker, embedder>>

\* vector_store_client.py:72-78: a record is added through the storage
\* context, that is through the collection object the adapter holds. When
\* that object is of a deleted collection, the Chroma client either raises
\* or serves the call under the collection's name.
storage_context_add ==
    /\ store.op # "none"
    /\ \E id \in DocIds \ IdsOf(store.records), c \in Contexts,
          stale \in {"raises", "by_name"} :
          /\ store.chroma_collection = store.self_collection => stale = "by_name"
          /\ store' = IF stale = "raises"
                       THEN [Called("storage_context_add") EXCEPT !.ids = {id}, !.raised = TRUE]
                       ELSE [Called("storage_context_add") EXCEPT
                                !.ids = {id}, !.records = @ \cup {StoreRecord(id, c)}]
    /\ UNCHANGED <<server, chunker, embedder>>

\* A deletion that takes the whole context of every id it is given.
DeleteContexts(records, ids) ==
    {x \in records : \A y \in records : y.id \in ids => y.contextId # x.contextId}

\* vector_store_client.py:149: self.collection.delete(ids=ids)
Delete(records, ids) == {x \in records : x.id \notin ids}

\* vector_store_client.py:141-153
delete_documents ==
    /\ store.op # "none"
    /\ \E ids \in SUBSET DocIds \ {{}} :
          store' = [Called("delete_documents") EXCEPT
                       !.ids = ids,
                       !.records = Delete(@, ids),
                       !.removed = store.records \ Delete(store.records, ids)]
    /\ UNCHANGED <<server, chunker, embedder>>

\* vector_store_client.py:155-167: the collection is deleted and a new one
\* of the same name is opened and assigned to self.collection; the adapter
\* and the storage context are not rebuilt.
clear_collection ==
    /\ store.op # "none"
    /\ store.self_collection <= MaxClears
    /\ store' = [Called("clear_collection") EXCEPT
                    !.self_collection = @ + 1,
                    !.records = {},
                    !.removed = store.records]
    /\ UNCHANGED <<server, chunker, embedder>>

\* vector_store_client.py:180-182: self.collection.get(where={"contextId": context_id})
Get(records, context_id) == {x \in records : x.contextId = context_id}

\* vector_store_client.py:169-187
get_documents_by_context ==
    /\ store.op # "none"
    /\ \E c \in Contexts :
          store' = [Called("get_documents_by_context") EXCEPT
                       !.context_id = c, !.results = Get(store.records, c)]
    /\ UNCHANGED <<server, chunker, embedder>>

\* vector_store_client.py:137-139
get_document_count ==
    /\ store.op # "none"
    /\ store' = [Called("get_document_count") EXCEPT !.count = Cardinality(store.records)]
    /\ UNCHANGED <<server, chunker, embedder>>

NextClient ==
    \/ add_documents
    \/ storage_context_add
    \/ delete_documents
    \/ clear_collection
    \/ get_documents_by_context
    \/ get_document_count

\* ------------------------------------------------------- specification
Next ==
    \E r \in Reqs :
        \/ Receive(r)
        \/ upload_document_save(r)
        \/ upload_document_load(r)
        \/ upload_document_index(r)
        \/ sync_slack(r)
        \/ sync_slack_channels(r)
        \/ sync_slack_resume(r)
        \/ sync_slack_insert(r)
        \/ sync_github(r)
        \/ sync_github_repo(r)
        \/ sync_github_resume(r)
        \/ sync_github_insert(r)
        \/ cancel_sync(r)
        \/ query_knowledge(r)
        \/ query_engine_retrieve(r)
        \/ query_engine_synthesize(r)
        \/ query_knowledge_respond(r)
        \/ transform_query(r)

\* The server of run.py:41-47: one process, one event loop.
Spec == Init /\ [][Next]_vars

\* The same handlers with no common event loop.
SpecMP == InitMP /\ [][Next]_vars

\* The ingestion pipeline's chunker on its own, over every text and
\* configuration.
SpecChunker == InitChunker /\ [][NextChunker]_vars

\* The embedding wrapper on its own, over every batch and every order of
\* the provider's data items.
SpecEmbedder == InitEmbedder /\ [][NextEmbedder]_vars

\* The store client on its own, called in any order by its users.
SpecClient == InitClient /\ [][NextClient]_vars

\* The steps of the handler of request r, after the request was received.
Handler(r) ==
    \/ upload_document_save(r)
    \/ upload_document_load(r)
    \/ upload_document_index(r)
    \/ sync_slack(r)
    \/ sync_slack_channels(r)
    \/ sync_slack_resume(r)
    \/ sync_slack_insert(r)
    \/ sync_github(r)
    \/ sync_github_repo(r)
    \/ sync_github_resume(r)
    \/ sync_github_insert(r)
    \/ cancel_sync(r)
    \/ query_knowledge(r)
    \/ query_engine_retrieve(r)
    \/ query_engine_synthesize(r)
    \/ query_knowledge_respond(r)
    \/ transform_query(r)

\* The event loop runs every handler that is ready, the thread pool every
\* worker thread (asyncio.to_thread), and every external call returns or raises.
SpecFair == Spec /\ \A r \in Reqs : WF_vars(Handler(r))

\* ================================================================ claims
IngestKinds == {"upload", "slack", "github"}
Queries == {r \in Reqs : req[r].kind = "query"}

\* C1: a query scoped to contextId A never gets back, from the retrieval or in
\* its sources, a record of another context, whatever writes run beside it.
C1_Isolation ==
    \A r \in Queries :
        \A x \in req[r].retrieved \cup req[r].sources :
            x.contextId = req[r].contextId

\* A query answered with sources while records of another context were
\* written between its start and its answer.
C1_Witness ==
    \E r \in Queries :
        /\ req[r].pc = "done" /\ req[r].status = 200
        /\ req[r].sources # {}
        /\ \E c \in req[r].during : c # req[r].contextId
        /\ \E x \in collection : x.contextId # req[r].contextId

\* C2: every stored record carries a non-empty contextId, the one supplied
\* with the request that ingested it.
C2_RecordsCarryContext ==
    \A x \in collection :
        /\ x.contextId \notin {"", None}
        /\ x.req \in Reqs => x.contextId = req[x.req].contextId

\* C3: a query or ingestion request whose contextId is missing or empty
\* touches nothing (no fetch, embedding, completion, index read or write) and
\* is answered with the validation error.
C3_MissingContextRejected ==
    \A r \in Reqs :
        req[r].kind \in IngestKinds \cup {"query"} /\ req[r].contextId \in {"", None}
        => /\ req[r].fetches = 0 /\ req[r].embeds = 0 /\ req[r].llm = 0
           /\ req[r].reads = 0 /\ req[r].writes = 0
           /\ req[r].pc = "done" => req[r].status = 422

\* C4: every search of the collection is made for a query request and under
\* a filter that holds contextId = the request's contextId.
C4_FilterAlwaysPresent ==
    \A r \in Reqs :
        req[r].reads > 0
        => /\ req[r].kind = "query"
           /\ <<"contextId", req[r].contextId>> \in req[r].where

\* A query that searched a collection holding records of two contexts.
C4_Witness ==
    \E r \in Queries :
        /\ req[r].reads > 0 /\ req[r].retrieved # {}
        /\ \E x \in collection : x.contextId # req[r].contextId

\* C5: every source of a query response is a record of the retrieval made
\* for that query and carries the query's contextId.
C5_CitationsFromRetrieval ==
    \A r \in Queries :
        req[r].pc = "done" /\ req[r].status = 200
        => /\ req[r].sources \subseteq req[r].retrieved
           /\ \A x \in req[r].sources : x.contextId = req[r].contextId

\* A query answered with sources while the collection holds records that
\* are not among them.
C5_Witness ==
    \E r \in Queries :
        /\ req[r].pc = "done" /\ req[r].status = 200
        /\ req[r].sources # {}
        /\ collection \ req[r].sources # {}

\* C7: a sync of two or more documents in which the embedding of exactly
\* one document fails with a transient error still writes every other
\* document and does not fail.
C7_OtherChunksWritten ==
    \A r \in Reqs :
        /\ req[r].kind \in {"slack", "github"} /\ req[r].n >= 2
        /\ req[r].err = "transient" /\ req[r].pc = "done"
        => /\ req[r].status = 200
           /\ Cardinality(WrittenBy(r)) = req[r].n - 1

\* C8: a fatal embedding error ends the ingestion at once: the handler is
\* done with an error status that carries the error, the failing call was
\* made once, and no document after the failing one was embedded or written.
C8_FatalAborts ==
    \A r \in Reqs :
        req[r].kind \in IngestKinds /\ req[r].err = "fatal"
        => /\ req[r].pc = "done"
           /\ req[r].status \in {500, 503}
           /\ req[r].embeds = req[r].i + 1
           /\ Cardinality(WrittenBy(r)) = req[r].i

\* A sync whose second document of three failed fatally: one document
\* before the failing one, one after it.
C8_Witness ==
    \E r \in Reqs :
        /\ req[r].kind \in {"slack", "github"} /\ req[r].err = "fatal"
        /\ req[r].i = 1 /\ req[r].n = 3

\* C9: the answer of a finished sync that added records states a count, and
\* the count is the number of records the call added.
C9_CountsReported ==
    \A r \in Reqs :
        /\ req[r].kind \in {"slack", "github"} /\ req[r].pc = "done"
        /\ WrittenBy(r) # {}
        => req[r].count = Cardinality(WrittenBy(r))

\* C10: once a cancel request has been answered while a sync job was
\* running, that job adds no further record to the collection.
C10_CancelStopsWrites ==
    [][\A j \in cancelled :
          {x \in collection' : x.req = j} = {x \in collection : x.req = j}]_vars

\* C11: no handler repeats a provider call that failed: a request makes at
\* most one embedding call per document (one for a question) and at most one
\* completion call, and every request that was received is answered, with
\* success or with an error, also when the provider fails.
C11_BoundedRetry ==
    /\ [](\A r \in Reqs : req[r].embeds <= req[r].n + 1 /\ req[r].llm <= 1)
    /\ <>[](\A r \in Reqs : req[r].pc \in {"idle", "done"})

\* A request answered with an error after a transient failure of the provider.
C11_Witness ==
    \E r \in Reqs :
        /\ req[r].err = "transient" /\ req[r].pc = "done"
        /\ req[r].status \in {500, 503}

\* C12: every document whose insert has returned to its handler is in the
\* collection under its own identity, context and source tag, whatever other
\* ingestion ran beside it: no add of one request removes or replaces a
\* record of another.
C12_NoLostWrite ==
    \A r \in Reqs :
        req[r].kind \in IngestKinds
        => \A d \in 1..req[r].i :
              [req |-> r, doc |-> d, contextId |-> Bound(r),
               source |-> IF req[r].kind = "upload" THEN "file_upload" ELSE req[r].kind]
                  \in collection

\* A sync that is in the middle of its inserts while the upload that arrived
\* after it, and wrote during its fetch, has been answered with success.
C12_Witness ==
    /\ req[1].kind \in {"slack", "github"} /\ req[1].pc = "insert" /\ req[1].i >= 1
    /\ req[2].kind \in IngestKinds /\ req[2].pc = "done" /\ req[2].status = 200
    /\ WrittenBy(2) # {}

\* C13: a sync in progress, its inserts included, never keeps the event loop
\* from a query that has arrived: the handler of the query can take its next
\* step while the sync is still running.
C13_SyncOffRequestPath ==
    \A j \in Reqs, q \in Reqs :
        /\ Running(req[j])
        /\ req[q].kind = "query" /\ req[q].pc \in {"start", "query", "synth", "respond"}
        => CanRun(q)

\* C14: a query is answered 200 exactly when no call it made raised; a query
\* whose search matched no record is answered 200 with no source, and a query
\* that met a failure of the index or of a provider is answered 500 or 503.
C14_ZeroMatchNotError ==
    \A r \in Queries :
        req[r].pc = "done" /\ req[r].status # 422
        => /\ (req[r].err = "none") <=> (req[r].status = 200)
           /\ req[r].err = "none" /\ req[r].retrieved = {} => req[r].sources = {}
           /\ req[r].err # "none" => req[r].status \in {500, 503} /\ req[r].body # "ok"

\* A query answered with success and no source: its context holds no record
\* while the collection holds records of another context.
C14_Witness ==
    \E r \in Queries :
        /\ req[r].pc = "done" /\ req[r].status = 200 /\ req[r].reads > 0
        /\ req[r].retrieved = {} /\ req[r].sources = {}
        /\ collection # {}

\* C15: a retrieval returns at most n_results (5) records and exactly as many
\* as the smaller of 5 and the number of records of the queried context.
C15_TopKDefault ==
    \A r \in Queries :
        req[r].pc \in {"synth", "respond"}
        => LET m == Cardinality(Search(req[r].where))
           IN  Cardinality(req[r].retrieved) = IF m < n_results THEN m ELSE n_results

\* C16: two ingestions of the same documents (same endpoint, same context,
\* same n documents) that both succeeded have each added n records of their
\* own: the context holds 2n records of the two, every document twice, and
\* the records of the first are all still there.
C16_DuplicatesKept ==
    /\ req[1].kind \in IngestKinds /\ req[2].kind = req[1].kind
    /\ Bound(1) = Bound(2) /\ req[1].n = req[2].n
    /\ \A r \in Reqs : req[r].pc = "done" /\ req[r].status = 200
    => /\ Cardinality(WrittenBy(1)) = req[1].n
       /\ Cardinality(WrittenBy(1) \cup WrittenBy(2)) = 2 * req[1].n
       /\ \A x \in WrittenBy(1) : \E y \in WrittenBy(2) :
              y.doc = x.doc /\ y.contextId = x.contextId /\ y.source = x.source

\* The same one-document file uploaded twice into the same context, both
\* uploads answered with success.
C16_Witness ==
    /\ req[1].kind = "upload" /\ req[2].kind = "upload"
    /\ Bound(1) = Bound(2) /\ req[1].n = req[2].n /\ req[1].n >= 1
    /\ \A r \in Reqs : req[r].pc = "done" /\ req[r].status = 200

\* C17: a step of a rewrite request leaves the set of stored records as it
\* was, whether the rewrite succeeds or fails, and the rewrite makes no
\* embedding call, no search and no write.
C17_TransformFrame ==
    [][\A r \in Reqs :
          req'[r].kind = "transform" /\ req'[r] # req[r]
          => /\ collection' = collection
             /\ req'[r].reads = 0 /\ req'[r].writes = 0 /\ req'[r].embeds = 0]_vars

\* A rewrite answered, with a transformed question or with an error, over a
\* collection that holds records.
C17_Witness ==
    \E r \in Reqs :
        /\ req[r].kind = "transform" /\ req[r].pc = "done" /\ req[r].llm = 1
        /\ collection # {}

\* C18: a rewrite request that carries no contextId is not refused as
\* invalid: it is handed to the handler and answered by it.
C18_TransformWithoutContext ==
    \A r \in Reqs :
        req[r].kind = "transform" /\ req[r].contextId = None
        => req[r].status # 422

\* C19: a request answered 500 after an exception gets a generic message,
\* not the text of the exception.
C19_NoErrorText ==
    \A r \in Reqs :
        req[r].pc = "done" /\ req[r].err # "none" /\ req[r].status = 500
        => req[r].body = "generic"

\* C20: every chunk passed to the embedding call holds at most maxTokens
\* tokens, for every text and every accepted (maxTokens, overlapTokens).
C20_ChunksBounded ==
    \A k \in 1..chunker.sent : Len(chunker.chunks[k]) <= chunker.maxTokens

\* A text longer than a window, chunked with an overlap, whose chunks have
\* all been passed to the embedding call.
C20_Witness ==
    /\ Len(chunker.text) > chunker.maxTokens /\ chunker.overlapTokens >= 1
    /\ chunker.sent >= 2 /\ chunker.sent = Len(chunker.chunks)

\* C21: the k-th window of a split starts maxTokens - overlapTokens tokens
\* after the one before it (the first at the first token) and holds the
\* tokens of the text from there on, maxTokens of them or, for the last
\* window only, what is left; every token of the text lies in a window.
C21_WindowsAdvance ==
    chunker.pc = "embedding"
    => LET c == chunker.chunks
           L == Len(chunker.text)
           step == chunker.maxTokens - chunker.overlapTokens
           first(k) == (k - 1) * step + 1
       IN  /\ \A k \in 1..Len(c) :
                  c[k] = SubSeq(chunker.text, first(k),
                                Min(first(k) + chunker.maxTokens - 1, L))
           /\ \A k \in 1..(Len(c) - 1) : Len(c[k]) = chunker.maxTokens
           /\ \A t \in 1..L : \E k \in 1..Len(c) :
                  first(k) <= t /\ t < first(k) + Len(c[k])

\* A text split with an overlap into two or more windows, the last one
\* shorter than maxTokens.
C21_Witness ==
    /\ chunker.pc = "embedding" /\ chunker.overlapTokens >= 1
    /\ Len(chunker.chunks) >= 2
    /\ Len(chunker.chunks[Len(chunker.chunks)]) < chunker.maxTokens

\* C22: an ingestion whose source was read without an error and holds no
\* content ends normally: it is answered 200 and has written no record.
C22_EmptyIsNotAnError ==
    \A r \in Reqs :
        /\ req[r].kind \in IngestKinds /\ req[r].pc = "done"
        /\ req[r].fetches > 0 /\ req[r].err = "none" /\ req[r].n = 0
        => req[r].status = 200 /\ WrittenBy(r) = {}

\* C23: a batch call returns one vector per input text, the i-th being the
\* embedding of the i-th text, in whatever order the provider's response
\* holds its data items.
C23_BatchOrder ==
    embedder.pc = "returned"
    => /\ Len(embedder.vectors) = Len(embedder.texts)
       /\ \A i \in 1..Len(embedder.texts) :
              embedder.vectors[i] = Embedding(embedder.texts[i])

\* C25: a query that failed on a rate-limit error of the provider is
\* answered 429 with the rate-limit message, and one that failed on another
\* API error is answered 503.
C25_RateLimitIs429 ==
    \A r \in Reqs :
        req[r].kind = "query" /\ req[r].pc = "done" /\ req[r].cls \in APIErrors
        => IF req[r].cls = "RateLimitError"
           THEN req[r].status = 429 /\ req[r].body = "rate_limit"
           ELSE req[r].status = 503

\* C26: a sync handler that finds its own input invalid answers with the
\* status of that validation failure, 400 for a GitHub sync without a token
\* and 422 for a Slack sync without channels or token, and it has fetched
\* nothing and written nothing.
C26_ValidationKeepsStatus ==
    \A r \in Reqs :
        req[r].kind \in {"slack", "github"} /\ req[r].pc = "done" /\ req[r].invalid
        => /\ req[r].fetches = 0
           /\ WrittenBy(r) = {}
           /\ req[r].status = IF req[r].kind = "github" THEN 400 ELSE 422

\* C27: when an upload has been answered, on whatever path, its temporary
\* file is gone.
C27_TempFileRemoved ==
    \A r \in Reqs :
        req[r].kind = "upload" /\ req[r].pc = "done" => ~req[r].temp

\* C28: in every reachable state the collection object behind the storage
\* context and the vector store adapter is the one in self.collection.
C28_AdapterOnCollection ==
    store.chroma_collection = store.self_collection

\* C30: a record of the collection stays in it, unchanged and returned by the
\* reads of its context, until a call deletes it: delete_documents(ids)
\* removes the records with those ids and no other, so no record of another
\* context than the deleted ones', and only clear_collection removes more.
C30_RecordsPersist ==
    /\ [](store.op = "get_documents_by_context"
           => store.results = {x \in store.records : x.contextId = store.context_id})
    /\ [][\A x \in store.records :
              x \notin store'.records
              => \/ store'.op = "delete_documents" /\ x.id \in store'.ids
                 \/ store'.op = "clear_collection"]_vars
    /\ [](store.op = "delete_documents" => \A x \in store.removed : x.id \in store.ids)

\* A deletion has removed a record of one context and left a record of the
\* same context and one of the other.
C30_Witness ==
    /\ store.op = "delete_documents"
    /\ \E x \in store.removed :
          /\ \E y \in store.records : y.contextId = x.contextId
          /\ \E z \in store.records : z.contextId # x.contextId

\* C29: a Slack sync answered "success" with syncedCount n has inserted the
\* n documents of the reader and nothing else, each tagged source "slack"
\* and the contextId the handler received; a sync whose reader returned no
\* document is answered "warning" with syncedCount 0 and has written nothing.
C29_SlackCountsInserted ==
    \A r \in Reqs :
        req[r].kind = "slack" /\ req[r].pc = "done" /\ req[r].status = 200
        => IF req[r].n = 0
           THEN /\ req[r].body = "warning" /\ req[r].count = 0
                /\ req[r].writes = 0 /\ WrittenBy(r) = {}
           ELSE /\ req[r].body = "ok" /\ req[r].count = req[r].n
                /\ WrittenBy(r) = {[req |-> r, doc |-> d, contextId |-> Bound(r),
                                    source |-> "slack"] : d \in 1..req[r].n}

\* A Slack sync of two documents or more has been answered "success".
C29_Witness ==
    \E r \in Reqs :
        /\ req[r].kind = "slack" /\ req[r].pc = "done" /\ req[r].body = "ok"
        /\ req[r].count >= 2 /\ Cardinality(WrittenBy(r)) >= 2

====
